---- MODULE Spec2Model ----
(***************************************************************************)
(* diesel-custom-type: the CustomSqlType conversion contract, the Color    *)
(* implementation of the crate documentation, and the trait               *)
(* implementations that register_custom_type! generates (ToSql, FromSql,   *)
(* FromSqlRow, AsExpression for owned and borrowed values, Queryable).     *)
(*                                                                         *)
(* The generated code keeps no state of its own.  The state of the model   *)
(* is what its callers hand to it by mutable reference (the serialization  *)
(* Output and the Row being materialized), the CustomSqlType               *)
(* implementation the macro was expanded for, and a record of the last     *)
(* call (operation, argument, result, the calls it made in order).         *)
(***************************************************************************)
EXTENDS Integers, Sequences, FiniteSets, TLC

VARIABLES conv, out, row, last, sample, later

vars == <<conv, out, row, last, sample, later>>

(***************************************************************************)
(* Bounds of the model.                                                    *)
(***************************************************************************)
\* largest value of the low byte of a column value
MaxByte == 3
\* largest value of the high byte of a column value
MaxHi == 1
\* capacity, in bytes, of the writer behind the serialization Output
OutCap == 2
\* largest number of columns of a Row
MaxRow == 2
\* largest column count of the rows of the determinism specification
MaxRowDet == 1

(***************************************************************************)
(* Values.                                                                 *)
(***************************************************************************)
Colors == {"Red", "Green", "Blue"}

DataBaseType == "SmallInt"

ByteVals == 0..MaxByte

\* Option<&DB::RawValue>
None == [some |-> FALSE, bytes |-> <<>>]
Some(b) == [some |-> TRUE, bytes |-> b]

HiVals == 0..MaxHi

ByteSeqs == {<<>>} \cup {<<b>> : b \in ByteVals}
              \cup {<<h, l>> : h \in HiVals, l \in ByteVals}

BytesIn == {None} \cup {Some(b) : b \in ByteSeqs}

\* the i16 values the column values of the model decode to
RawVals == {h * 256 + l : h \in HiVals, l \in ByteVals}

\* errors: a message and the raw value it is about (0 when it is about none)
NoErr == [msg |-> "", raw |-> 0]
MkErr(m, v) == [msg |-> m, raw |-> v]

\* Result<Color, Box<Error + Send + Sync>>, or the unwinding of a panic
Ok(v) == [kind |-> "Ok", val |-> v, err |-> NoErr]
Err(e) == [kind |-> "Err", val |-> "", err |-> e]
Panic(e) == [kind |-> "Panic", val |-> "", err |-> e]

\* Result<i16, Box<Error + Send + Sync>> of the raw type's own conversions
RawOk(v) == [kind |-> "Ok", val |-> v, err |-> NoErr]
RawErr(e) == [kind |-> "Err", val |-> 0, err |-> e]

(***************************************************************************)
(* The raw type's own conversions (i16 as SmallInt): two bytes, big        *)
(* endian, two's complement.                                               *)
(***************************************************************************)
I16Encode(v) == LET u == (v + 65536) % 65536 IN <<u \div 256, u % 256>>

I16Decode(b) == LET u == b[1] * 256 + b[2] IN IF u >= 32768 THEN u - 65536 ELSE u

RawType_from_sql(bytes) ==
    IF ~bytes.some THEN RawErr(MkErr("UnexpectedNullError", 0))
    ELSE IF Len(bytes.bytes) < 2 THEN RawErr(MkErr("UnexpectedEof", 0))
    ELSE RawOk(I16Decode(bytes.bytes))

\* write_all into a writer of OutCap bytes: what fits is written, and the
\* call fails when not everything fits
RawType_to_sql(raw, o) ==
    LET data == I16Encode(raw)
        room == OutCap - Len(o)
        n    == IF room >= Len(data) THEN Len(data) ELSE IF room > 0 THEN room ELSE 0
    IN  [res |-> IF n = Len(data) THEN Ok("IsNull::No")
                 ELSE Err(MkErr("WriteZero", 0)),
         out |-> o \o SubSeq(data, 1, n)]

(***************************************************************************)
(* CustomSqlType for Color.                                                *)
(***************************************************************************)
to_database_type(v) ==
    CASE v = "Red"   -> 1
      [] v = "Green" -> 2
      [] v = "Blue"  -> 3

\* Color_from_database_type with the arm of Green copied over the arm of Blue
Color_from_database_type_copied(v) ==
    CASE v = 1 -> Ok("Red")
      [] v = 2 -> Ok("Green")
      [] v = 3 -> Ok("Green")
      [] OTHER -> Panic(MkErr("Unknown value for Color found", v))

\* the implementation of the crate documentation: an unknown value panics
Color_from_database_type(v) ==
    CASE v = 1 -> Ok("Red")
      [] v = 2 -> Ok("Green")
      [] v = 3 -> Ok("Blue")
      [] OTHER -> Panic(MkErr("Unknown value for Color found", v))

\* an implementation that uses the error channel of the trait's signature
Checked_from_database_type(v) ==
    CASE v = 1 -> Ok("Red")
      [] v = 2 -> Ok("Green")
      [] v = 3 -> Ok("Blue")
      [] OTHER -> Err(MkErr("Unknown value for Color", v))

Convs == {"doc", "checked"}

\* <$Target as CustomSqlType>::from_database_type
from_database_type(v) ==
    IF conv = "doc" THEN Color_from_database_type(v)
    ELSE Checked_from_database_type(v)

(***************************************************************************)
(* The implementations generated by register_custom_type!.                 *)
(***************************************************************************)
\* to_sql that writes the variant's index, from 0, instead of its raw value
to_sql_zero_based(self, o) ==
    LET w == RawType_to_sql(to_database_type(self) - 1, o)
    IN  [res   |-> w.res,
         out   |-> w.out,
         self  |-> self,
         calls |-> <<"to_database_type", "RawType::to_sql">>]

\* to_sql that drops the result of the raw type's to_sql
to_sql_swallow(self, o) ==
    LET w == RawType_to_sql(to_database_type(self), o)
    IN  [res   |-> Ok("IsNull::No"),
         out   |-> w.out,
         self  |-> self,
         calls |-> <<"to_database_type", "RawType::to_sql">>]

to_sql(self, o) ==
    LET w == RawType_to_sql(to_database_type(self), o)
    IN  [res   |-> w.res,
         out   |-> w.out,
         self  |-> self,
         calls |-> <<"to_database_type", "RawType::to_sql">>]

\* from_sql that keeps the value it read last and answers with it again
from_sql_cached(bytes) ==
    LET r == RawType_from_sql(bytes)
    IN  IF last.op = "from_sql" /\ last.res.kind = "Ok"
        THEN [res   |-> last.res,
              calls |-> <<>>]
        ELSE IF r.kind = "Ok"
        THEN [res   |-> from_database_type(r.val),
              calls |-> <<"RawType::from_sql", "from_database_type">>]
        ELSE [res   |-> Err(r.err),
              calls |-> <<"RawType::from_sql">>]

\* from_sql that converts the raw type's default when the read failed
from_sql_eager(bytes) ==
    LET r == RawType_from_sql(bytes)
    IN  [res   |-> from_database_type(r.val),
         calls |-> <<"RawType::from_sql", "from_database_type">>]

from_sql(bytes) ==
    LET r == RawType_from_sql(bytes)
    IN  IF r.kind = "Ok"
        THEN [res   |-> from_database_type(r.val),
              calls |-> <<"RawType::from_sql", "from_database_type">>]
        ELSE [res   |-> Err(r.err),
              calls |-> <<"RawType::from_sql">>]

\* Row::take: the column at the cursor, and the cursor moves on
RowTake(r) == [col |-> r.cols[r.idx + 1], row |-> [r EXCEPT !.idx = @ + 1]]

\* build_from_row that reads the column at the cursor and leaves the cursor
build_from_row_peek(r) ==
    LET t == RowTake(r)
        f == from_sql(t.col)
    IN  [res   |-> f.res,
         row   |-> r,
         calls |-> <<"Row::take">> \o f.calls]

build_from_row(r) ==
    LET t == RowTake(r)
        f == from_sql(t.col)
    IN  [res   |-> f.res,
         row   |-> t.row,
         calls |-> <<"Row::take">> \o f.calls]

Bound(ty, item) == [sql_type |-> ty, item |-> item]

Owned(v) == [borrowed |-> FALSE, target |-> v]
Borrowed(v) == [borrowed |-> TRUE, target |-> v]

as_expression(self) == Bound(DataBaseType, Owned(self))

\* as_expression for a reference that binds under another SQL type
as_expression_ref_integer(self) == Bound("Integer", Borrowed(self))

as_expression_ref(self) == Bound(DataBaseType, Borrowed(self))

\* what a bound expression binds: its item's to_sql; a reference serializes
\* as the value it points to
BoundRaw(b) == to_database_type(b.item.target)

\* build that falls back to a default Color instead of failing
build_or_default(r) ==
    LET x == from_database_type(r)
    IN  IF x.kind = "Ok" THEN x
        ELSE IF x.kind = "Err" THEN Ok("Red")
        ELSE x

build(r) ==
    LET x == from_database_type(r)
    IN  IF x.kind = "Ok" THEN x
        ELSE IF x.kind = "Err"
             THEN Panic(MkErr("FIXME: We can't fail here", x.err.raw))
        ELSE x

(***************************************************************************)
(* State machine.                                                          *)
(***************************************************************************)
\* the columns of the rows: NULL, a value no Color has, and Red
RowCols == {None, Some(I16Encode(0)), Some(I16Encode(to_database_type("Red")))}

RowsOf(n) == UNION {[1..k -> RowCols] : k \in 0..n}

NoCall == [op |-> "none", arg |-> 0, res |-> 0, eff |-> 0, calls |-> <<>>]

\* every call is recorded, and it is later than the call the observer kept
Record(op, arg, res, eff, calls) ==
    /\ last' = [op |-> op, arg |-> arg, res |-> res, eff |-> eff, calls |-> calls]
    /\ later' = TRUE

InitWith(n) ==
    /\ conv \in Convs
    /\ out = <<>>
    /\ \E cols \in RowsOf(n) : row = [cols |-> cols, idx |-> 0]
    /\ last = NoCall
    /\ sample = NoCall
    /\ later = FALSE

Init == InitWith(MaxRow)

InitDet == InitWith(MaxRowDet)

\* the caller starts a new Output
NewOutput ==
    /\ out # <<>>
    /\ out' = <<>>
    /\ Record("new_output", 0, 0, 0, <<>>)
    /\ UNCHANGED <<conv, row, sample>>

\* the caller moves on to the next row of the result set, which has as many
\* columns as the one it has read
NewRow ==
    /\ row.cols # <<>>
    /\ row.idx = Len(row.cols)
    /\ \E cols \in [1..Len(row.cols) -> RowCols] : row' = [cols |-> cols, idx |-> 0]
    /\ Record("new_row", 0, 0, 0, <<>>)
    /\ UNCHANGED <<conv, out, sample>>

ToDatabaseType ==
    \E v \in Colors :
        /\ Record("to_database_type", v, to_database_type(v), v, <<>>)
        /\ UNCHANGED <<conv, out, row, sample>>

FromDatabaseType ==
    \E r \in RawVals :
        /\ Record("from_database_type", r, from_database_type(r), 0, <<>>)
        /\ UNCHANGED <<conv, out, row, sample>>

ToSql ==
    \E v \in Colors :
        LET c == to_sql(v, out)
        IN  /\ out' = c.out
            /\ Record("to_sql", [self |-> v, out |-> out], c.res,
                      [self |-> c.self, out |-> c.out], c.calls)
            /\ UNCHANGED <<conv, row, sample>>

FromSql ==
    \E b \in BytesIn :
        LET c == from_sql(b)
        IN  /\ Record("from_sql", b, c.res, 0, c.calls)
            /\ UNCHANGED <<conv, out, row, sample>>

BuildFromRow ==
    /\ row.idx < Len(row.cols)
    /\ LET c == build_from_row(row)
       IN  /\ row' = c.row
           /\ Record("build_from_row", row, c.res, c.row, c.calls)
    /\ UNCHANGED <<conv, out, sample>>

AsExpression ==
    \E v \in Colors :
        /\ Record("as_expression", v, as_expression(v), 0, <<>>)
        /\ UNCHANGED <<conv, out, row, sample>>

AsExpressionRef ==
    \E v \in Colors :
        /\ Record("as_expression_ref", v, as_expression_ref(v), 0, <<>>)
        /\ UNCHANGED <<conv, out, row, sample>>

Build ==
    \E r \in RawVals :
        /\ Record("build", r, build(r), 0, <<>>)
        /\ UNCHANGED <<conv, out, row, sample>>

Next ==
    \/ NewOutput
    \/ NewRow
    \/ ToDatabaseType
    \/ FromDatabaseType
    \/ ToSql
    \/ FromSql
    \/ BuildFromRow
    \/ AsExpression
    \/ AsExpressionRef
    \/ Build

Spec == Init /\ [][Next]_vars

\* an observer keeps the last call, to compare a later call with it
Remember ==
    /\ last.op \notin {"none", "new_output", "new_row"}
    /\ later
    /\ sample' = last
    /\ later' = FALSE
    /\ UNCHANGED <<conv, out, row, last>>

NextDet ==
    \/ Next
    \/ Remember

SpecDet == InitDet /\ [][NextDet]_vars

(***************************************************************************)
(* What a recorded call read and converted.                                *)
(***************************************************************************)
\* the raw values some Color converts to
ValidRaws == {to_database_type(v) : v \in Colors}

\* the column value a read from storage was given
ColOf(c) == IF c.op = "from_sql" THEN c.arg ELSE c.arg.cols[c.arg.idx + 1]

\* the call handed a raw value to from_database_type
ReachesConv(c) ==
    \/ c.op \in {"from_database_type", "build"}
    \/ /\ c.op \in {"from_sql", "build_from_row"}
       /\ RawType_from_sql(ColOf(c)).kind = "Ok"

\* the raw value it handed over
RawSeen(c) ==
    IF c.op \in {"from_database_type", "build"} THEN c.arg
    ELSE RawType_from_sql(ColOf(c)).val

Count(seq, x) == Cardinality({i \in 1..Len(seq) : seq[i] = x})

SameKey(a, b) == a.op = b.op /\ a.arg = b.arg

ExprOps == {"as_expression", "as_expression_ref"}

\* two bound expressions are of one SQL type and wrap equal values
EquivalentBound(a, b) ==
    /\ a.sql_type = b.sql_type
    /\ a.item.target = b.item.target
    /\ BoundRaw(a) = BoundRaw(b)

(***************************************************************************)
(* C1: for every raw value outside the valid set, from_database_type and   *)
(* every read path that calls it (from_sql, build_from_row, build) return  *)
(* an error: never a value, never a panic.                                 *)
(***************************************************************************)
C1_UnknownIsError ==
    (ReachesConv(last) /\ RawSeen(last) \notin ValidRaws)
        => last.res.kind = "Err"

(***************************************************************************)
(* C2: when from_database_type returns an error for a raw value, from_sql, *)
(* build_from_row and build hand exactly that error to their caller.       *)
(***************************************************************************)
C2_ErrorPropagated ==
    (/\ last.op \in {"from_sql", "build_from_row", "build"}
     /\ ReachesConv(last)
     /\ from_database_type(RawSeen(last)).kind = "Err")
        => last.res = from_database_type(RawSeen(last))

(***************************************************************************)
(* C3: round trip: for every Color v, from_database_type applied to        *)
(* to_database_type(v) returns Ok(v).                                      *)
(***************************************************************************)
C3_RoundTrip ==
    \A v \in Colors :
        (last.op = "from_database_type" /\ last.arg = to_database_type(v))
            => last.res = Ok(v)

C3_Witness ==
    /\ last.op = "from_database_type"
    /\ last.arg = to_database_type("Blue")
    /\ last.res = Ok("Blue")

(***************************************************************************)
(* C4: write then read: for every Color v, from_sql applied to the bytes   *)
(* that to_sql(v) wrote into an empty Output yields what                   *)
(* from_database_type(to_database_type(v)) yields.                         *)
(***************************************************************************)
C4_WriteThenRead ==
    \A v \in Colors :
        LET w == to_sql(v, <<>>)
        IN  (last.op = "from_sql" /\ w.res.kind = "Ok" /\ last.arg = Some(w.out))
                => last.res = from_database_type(to_database_type(v))

C4_Witness ==
    /\ last.op = "from_sql"
    /\ to_sql("Green", <<>>).res.kind = "Ok"
    /\ last.arg = Some(to_sql("Green", <<>>).out)
    /\ last.res = Ok("Green")

(***************************************************************************)
(* C5: binding an owned value and binding a reference to an equal value    *)
(* give bound expressions of the same SQL type, DataBaseType, around the   *)
(* same value, and both bind the raw value to_database_type(v).            *)
(***************************************************************************)
C5_BoundEquivalent ==
    /\ last.op \in ExprOps =>
          /\ last.res.sql_type = DataBaseType
          /\ last.res.item.target = last.arg
          /\ BoundRaw(last.res) = to_database_type(last.arg)
    /\ last.op = "as_expression" =>
          /\ ~last.res.item.borrowed
          /\ EquivalentBound(last.res, as_expression_ref(last.arg))
    /\ last.op = "as_expression_ref" =>
          /\ last.res.item.borrowed
          /\ EquivalentBound(last.res, as_expression(last.arg))

C5_Witness ==
    /\ last.op = "as_expression_ref"
    /\ last.arg = "Blue"
    /\ last.res.item.borrowed
    /\ EquivalentBound(last.res, as_expression("Blue"))

C7_RawReadError ==
    last.op = "from_sql" =>
        LET r == RawType_from_sql(last.arg)
        IN  /\ r.kind = "Err" =>
                /\ last.res = Err(r.err)
                /\ last.calls = <<"RawType::from_sql">>
            /\ r.kind = "Ok" =>
                last.calls = <<"RawType::from_sql", "from_database_type">>
            /\ Count(last.calls, "from_database_type") <= 1

C7_Witness ==
    /\ last.op = "from_sql"
    /\ last.arg = None
    /\ last.res = Err(MkErr("UnexpectedNullError", 0))

(***************************************************************************)
(* C8: to_sql writes what the raw type's to_sql writes for                 *)
(* to_database_type(self), nothing else, and returns that call's result,   *)
(* Ok or Err; it converts once.                                            *)
(***************************************************************************)
C8_WriteDelegates ==
    last.op = "to_sql" =>
        LET w == RawType_to_sql(to_database_type(last.arg.self), last.arg.out)
        IN  /\ out = w.out
            /\ last.eff.out = w.out
            /\ last.res = w.res
            /\ last.calls = <<"to_database_type", "RawType::to_sql">>

C8_Witness ==
    /\ last.op = "to_sql"
    /\ last.arg.self = "Blue"
    /\ last.arg.out # <<>>
    /\ last.res.kind = "Err"

(***************************************************************************)
(* C9: build_from_row takes one column from the row on every call,         *)
(* whether the conversion succeeds or not: the column at the cursor, and   *)
(* the cursor moves on by one; its result is from_sql of that column.      *)
(***************************************************************************)
C9_OneColumn ==
    last.op = "build_from_row" =>
        /\ row = [last.arg EXCEPT !.idx = @ + 1]
        /\ Count(last.calls, "Row::take") = 1
        /\ last.res = from_sql(last.arg.cols[last.arg.idx + 1]).res

C9_Witness ==
    /\ last.op = "build_from_row"
    /\ last.arg.idx = 1
    /\ row.idx = 2
    /\ last.arg.cols[1] # last.arg.cols[2]
    /\ last.res.kind # "Ok"

(***************************************************************************)
(* C10: build returns v for a raw row value that from_database_type        *)
(* converts to Ok(v); for one it answers with Err(e), build panics, where  *)
(* from_sql and build_from_row return Err(e).                              *)
(***************************************************************************)
C10_BuildPanics ==
    /\ last.op = "build" =>
          LET x == from_database_type(last.arg)
          IN  /\ x.kind = "Ok" => last.res = x
              /\ x.kind = "Err" => last.res.kind = "Panic"
    /\ (/\ last.op \in {"from_sql", "build_from_row"}
        /\ ReachesConv(last)
        /\ from_database_type(RawSeen(last)).kind = "Err")
          => last.res = from_database_type(RawSeen(last))

C10_Witness ==
    /\ last.op = "build"
    /\ from_database_type(last.arg).kind = "Err"
    /\ last.res.kind = "Panic"

====
